---- MODULE Spec2Model ----
(***************************************************************************)
(* Model of integration/llm_proof_driver.py: the driver that obtains a     *)
(* candidate proof (from the generation backend or from standard input),   *)
(* encodes it in the line-oriented request of the proof verifier, runs the *)
(* verifier as a subordinate process and reports its verdict.              *)
(*                                                                         *)
(* Text is modelled as a sequence of tokens.  A token is one character     *)
(* ("|", "\n", " ") or one atomic word or JSON lexeme ("CONCLUSION",       *)
(* "Premise", "true", "\"valid\"").                                        *)
(***************************************************************************)
EXTENDS Integers, Sequences, FiniteSets, TLC

VARIABLES
    premises,        \* args.premise: sequence of formulas
    conclusion,      \* args.conclusion
    dry_run,         \* args.dry_run
    api_key,         \* os.environ.get("OPENAI_API_KEY"): a text, <<>> when unset or empty
    openai_timeout,  \* the OPENAI_TIMEOUT variable of the environment
    proof_payload,   \* what json.loads gave for the standard input or the backend's content
    llm_timeout,     \* the timeout given to urlopen, in seconds
    pc,              \* position of main
    steps,           \* the list of ProofStep built by call_llm / load_steps_from_stdin
    request,         \* the text written on the verifier's input channel
    proc,            \* the completed verifier process (returncode, stdout, stderr)
    checker_result,  \* the value call_proof_checker returned to main
    table_printed,   \* print_table(steps) has written the table
    verdict,         \* the record printed on standard output by main, line 195
    error_line,      \* the "Proof checker error: ..." line on the diagnostic stream
    exc,             \* the exception that ended the run
    exit_code,       \* status of the process, -1 while running
    llm_requests,    \* number of requests sent to the generation backend
    oracle_runs      \* number of verifier processes started

vars == <<premises, conclusion, dry_run, api_key, openai_timeout, proof_payload, llm_timeout,
          pc, steps, request, proc,
          checker_result, table_printed, verdict, error_line, exc, exit_code,
          llm_requests, oracle_runs>>

----------------------------------------------------------------------------
(* Bounds of the model *)

MaxPremises == 2
MaxSteps == 2

----------------------------------------------------------------------------
(* Texts *)

NL == "\n"
BAR == "|"

\* str.strip() removes leading and trailing whitespace
IsSpace(t) == t \in {" ", NL}

RECURSIVE LStrip(_)
LStrip(s) == IF s = <<>> THEN s
             ELSE IF IsSpace(Head(s)) THEN LStrip(Tail(s)) ELSE s

RECURSIVE RStrip(_)
RStrip(s) == IF s = <<>> THEN s
             ELSE IF IsSpace(s[Len(s)]) THEN RStrip(SubSeq(s, 1, Len(s) - 1)) ELSE s

Strip(s) == RStrip(LStrip(s))

\* "\n".join(lines)
RECURSIVE JoinLines(_)
JoinLines(lines) ==
    IF lines = <<>> THEN <<>>
    ELSE IF Len(lines) = 1 THEN lines[1]
    ELSE lines[1] \o <<NL>> \o JoinLines(Tail(lines))

----------------------------------------------------------------------------
(* Exceptions.  type is the Python exception class, site the function that *)
(* raised it, text the fixed part of its message, detail the text it       *)
(* carries.                                                                *)

NoExc == [type |-> "None", site |-> "", text |-> "", detail |-> <<>>]

Raise(type, site, text, detail) ==
    [type |-> type, site |-> site, text |-> text, detail |-> detail]

----------------------------------------------------------------------------
(* ProofStep and the construction of the steps from a proof_steps payload  *)

ProofStep(formula, rule) == [formula |-> formula, rule |-> rule]

\* ProofStep(formula=item["formula"], rule=item.get("rule", ""))
StepOfItem(item) ==
    ProofStep(item["formula"], IF "rule" \in DOMAIN item THEN item["rule"] ELSE <<>>)

\* a faulty construction: an item without "formula" is left out
BuildStepsSkipMalformed(payload, site) ==
    IF payload.shape = "bad_json"
    THEN [exc |-> Raise("JSONDecodeError", site, "json.loads", <<>>), steps |-> <<>>]
    ELSE IF payload.shape = "no_proof_steps"
    THEN [exc |-> Raise("KeyError", site, "proof_steps", <<>>), steps |-> <<>>]
    ELSE LET kept == SelectSeq(payload.items, LAMBDA it : "formula" \in DOMAIN it)
         IN [exc |-> NoExc, steps |-> [i \in 1..Len(kept) |-> StepOfItem(kept[i])]]

\* The list comprehension over parsed["proof_steps"]: the first item without
\* "formula" raises KeyError; json.loads and parsed["proof_steps"] raise before it.
BuildSteps(payload, site) ==
    IF payload.shape = "bad_json"
    THEN [exc |-> Raise("JSONDecodeError", site, "json.loads", <<>>), steps |-> <<>>]
    ELSE IF payload.shape = "no_proof_steps"
    THEN [exc |-> Raise("KeyError", site, "proof_steps", <<>>), steps |-> <<>>]
    ELSE IF \E i \in 1..Len(payload.items) : "formula" \notin DOMAIN payload.items[i]
    THEN [exc |-> Raise("KeyError", site, "formula", <<>>), steps |-> <<>>]
    ELSE [exc |-> NoExc,
          steps |-> [i \in 1..Len(payload.items) |-> StepOfItem(payload.items[i])]]

----------------------------------------------------------------------------
(* The request of the verifier *)

ConclusionLine(c) == <<"CONCLUSION", BAR>> \o c
PremiseLine(p) == <<"PREMISE", BAR>> \o p
\* a faulty encoder: the field separator of a STEP line is left out
StepLineNoSeparator(s) == <<"STEP", BAR>> \o s.formula \o s.rule

StepLine(s) == <<"STEP", BAR>> \o s.formula \o <<BAR, BAR>> \o s.rule

\* a faulty encoder: the premises are emitted before the conclusion header
EncodeRequestPremisesFirst(prem, concl, stps) ==
    JoinLines([i \in 1..Len(prem) |-> PremiseLine(prem[i])]
              \o <<ConclusionLine(concl)>>
              \o [i \in 1..Len(stps) |-> StepLine(stps[i])])
    \o <<NL>>

\* payload_lines, then "\n".join(payload_lines) + "\n"
EncodeRequest(prem, concl, stps) ==
    JoinLines(<<ConclusionLine(concl)>>
              \o [i \in 1..Len(prem) |-> PremiseLine(prem[i])]
              \o [i \in 1..Len(stps) |-> StepLine(stps[i])])
    \o <<NL>>

----------------------------------------------------------------------------
(* json.loads on the verifier's output.  A JSON value is a scalar lexeme,  *)
(* a list of scalars or an object whose members are scalars; whitespace    *)
(* between lexemes is insignificant.                                       *)

StringToks == {"\"valid\"", "\"error\"", "\"s\"", "\"\""}
ScalarToks == {"true", "false", "null", "0", "1"} \cup StringToks

NoWs(s) == SelectSeq(s, LAMBDA t : ~IsSpace(t))

IsElements(e) ==
    \/ e = <<>>
    \/ /\ Len(e) % 2 = 1
       /\ \A i \in 1..Len(e) : IF i % 2 = 1 THEN e[i] \in ScalarToks ELSE e[i] = ","

IsMembers(m) ==
    \/ m = <<>>
    \/ /\ Len(m) % 4 = 3
       /\ \A i \in 1..Len(m) :
            CASE i % 4 = 1 -> m[i] \in StringToks
              [] i % 4 = 2 -> m[i] = ":"
              [] i % 4 = 3 -> m[i] \in ScalarToks
              [] OTHER     -> m[i] = ","

\* a later member with the same key replaces an earlier one
DictOf(m) ==
    LET n == (Len(m) + 1) \div 4
        keyAt(j) == m[4 * (j - 1) + 1]
        valAt(j) == m[4 * (j - 1) + 3]
        last(k) == CHOOSE j \in 1..n :
                      keyAt(j) = k /\ \A h \in (j + 1)..n : keyAt(h) # k
    IN [k \in {keyAt(j) : j \in 1..n} |-> valAt(last(k))]

NoResult == [kind |-> "none", d |-> <<>>, v |-> ""]

JsonLoads(text) ==
    LET t == NoWs(text)
        inner == SubSeq(t, 2, Len(t) - 1)
    IN IF Len(t) = 1 /\ t[1] \in ScalarToks
       THEN [kind |-> "scalar", d |-> <<>>, v |-> t[1]]
       ELSE IF Len(t) >= 2 /\ t[1] = "[" /\ t[Len(t)] = "]" /\ IsElements(inner)
       THEN [kind |-> "list", d |-> <<>>, v |-> ""]
       ELSE IF Len(t) >= 2 /\ t[1] = "{" /\ t[Len(t)] = "}" /\ IsMembers(inner)
       THEN [kind |-> "dict", d |-> DictOf(inner), v |-> ""]
       ELSE [kind |-> "error", d |-> <<>>, v |-> ""]

\* Python truth value of a JSON scalar
Truthy(v) == v \notin {"false", "null", "0", "\"\""}

\* dict.get(key, default); get(key) gives None, written "null"
Get(d, key, default) == IF key \in DOMAIN d THEN d[key] ELSE default

----------------------------------------------------------------------------
(* call_proof_checker after the verifier has exited, lines 169-180 *)

NoProc == [ran |-> FALSE, returncode |-> 0, stdout |-> <<>>, stderr |-> <<>>]

\* a faulty adapter: the output is decoded first, the exit status is looked at
\* only when it cannot be decoded
CheckerOutcomeOutputFirst(run) ==
    LET output == Strip(run.stdout)
        parsed == JsonLoads(output)
    IN IF output # <<>> /\ parsed.kind # "error"
       THEN [exc |-> NoExc, result |-> parsed]
       ELSE IF run.returncode # 0
       THEN [exc |-> Raise("RuntimeError", "call_proof_checker",
                           "Proof verifier exited with code", Strip(run.stderr)),
             result |-> NoResult]
       ELSE IF output = <<>>
       THEN [exc |-> Raise("RuntimeError", "call_proof_checker",
                           "Proof verifier produced no output.", <<>>),
             result |-> NoResult]
       ELSE [exc |-> Raise("RuntimeError", "call_proof_checker",
                           "Failed to parse verifier output", output),
             result |-> NoResult]

\* a faulty adapter: an empty output is taken for the verdict "not valid"
CheckerOutcomeEmptyInvalid(run) ==
    LET output == Strip(run.stdout)
        parsed == JsonLoads(output)
    IN IF run.returncode # 0
       THEN [exc |-> Raise("RuntimeError", "call_proof_checker",
                           "Proof verifier exited with code", Strip(run.stderr)),
             result |-> NoResult]
       ELSE IF output = <<>>
       THEN [exc |-> NoExc,
             result |-> [kind |-> "dict", d |-> ("\"valid\"" :> "false"), v |-> ""]]
       ELSE IF parsed.kind = "error"
       THEN [exc |-> Raise("RuntimeError", "call_proof_checker",
                           "Failed to parse verifier output", output),
             result |-> NoResult]
       ELSE [exc |-> NoExc, result |-> parsed]

CheckerOutcome(run) ==
    LET output == Strip(run.stdout)
        parsed == JsonLoads(output)
    IN IF run.returncode # 0
       THEN [exc |-> Raise("RuntimeError", "call_proof_checker",
                           "Proof verifier exited with code", Strip(run.stderr)),
             result |-> NoResult]
       ELSE IF output = <<>>
       THEN [exc |-> Raise("RuntimeError", "call_proof_checker",
                           "Proof verifier produced no output.", <<>>),
             result |-> NoResult]
       ELSE IF parsed.kind = "error"
       THEN [exc |-> Raise("RuntimeError", "call_proof_checker",
                           "Failed to parse verifier output", output),
             result |-> NoResult]
       ELSE [exc |-> NoExc, result |-> parsed]

----------------------------------------------------------------------------
(* main after call_proof_checker has returned, lines 193-201 *)

NoVerdict == [printed |-> FALSE, valid |-> "", steps |-> <<>>]

\* a faulty report: the steps are listed last to first
ReportOutcomeReversedSteps(result, stps) ==
    IF result.kind # "dict"
    THEN [verdict |-> NoVerdict, error_line |-> <<>>,
          exc |-> Raise("AttributeError", "main", "get", <<>>), exit_code |-> 1]
    ELSE LET valid == Get(result.d, "\"valid\"", "false")
             error == Get(result.d, "\"error\"", "null")
         IN [verdict |-> [printed |-> TRUE, valid |-> valid,
                          steps |-> [i \in 1..Len(stps) |-> stps[Len(stps) + 1 - i]]],
             error_line |-> IF ~Truthy(valid) /\ Truthy(error)
                            THEN <<"Proof checker error: ", error>> ELSE <<>>,
             exc |-> NoExc,
             exit_code |-> IF ~Truthy(valid) THEN 1 ELSE 0]

\* a faulty report: a reply without "valid" counts as valid
ReportOutcomeDefaultValid(result, stps) ==
    IF result.kind # "dict"
    THEN [verdict |-> NoVerdict, error_line |-> <<>>,
          exc |-> Raise("AttributeError", "main", "get", <<>>), exit_code |-> 1]
    ELSE LET valid == Get(result.d, "\"valid\"", "true")
             error == Get(result.d, "\"error\"", "null")
         IN [verdict |-> [printed |-> TRUE, valid |-> valid, steps |-> stps],
             error_line |-> IF ~Truthy(valid) /\ Truthy(error)
                            THEN <<"Proof checker error: ", error>> ELSE <<>>,
             exc |-> NoExc,
             exit_code |-> IF ~Truthy(valid) THEN 1 ELSE 0]

ReportOutcome(result, stps) ==
    IF result.kind # "dict"
    THEN \* checker_result.get raises before anything of line 195 is printed
         [verdict |-> NoVerdict, error_line |-> <<>>,
          exc |-> Raise("AttributeError", "main", "get", <<>>), exit_code |-> 1]
    ELSE LET valid == Get(result.d, "\"valid\"", "false")
             error == Get(result.d, "\"error\"", "null")
         IN [verdict |-> [printed |-> TRUE, valid |-> valid, steps |-> stps],
             error_line |-> IF ~Truthy(valid) /\ Truthy(error)
                            THEN <<"Proof checker error: ", error>> ELSE <<>>,
             exc |-> NoExc,
             exit_code |-> IF ~Truthy(valid) THEN 1 ELSE 0]

----------------------------------------------------------------------------
(* The inputs of a run *)

SeqsUpTo(S, n) == UNION {[1..k -> S] : k \in 0..n}

\* --premise (repeatable) and --conclusion
PremisePool == {<<"P">>, <<"Q">>}
ConclusionPool == {<<"Q">>, <<"P", BAR, "Q">>}

\* items of a proof_steps payload: objects with "formula" and "rule", either optional
ItemPool ==
    { [formula |-> <<"P">>, rule |-> <<"Premise">>],
      [formula |-> <<"Q">>, rule |-> <<"Premise">>],
      [formula |-> <<"Q">>, rule |-> <<"->e", " ", "1,2">>],
      [formula |-> <<"P", BAR, BAR, "Q">>, rule |-> <<"x", NL, "y">>],
      [formula |-> <<"Q">>],
      [rule |-> <<"->e", " ", "1,2">>] }

\* what json.loads finds on standard input or in the backend's message content
Payloads ==
    { [shape |-> "bad_json", items |-> <<>>],
      [shape |-> "no_proof_steps", items |-> <<>>] }
    \cup { [shape |-> "ok", items |-> its] : its \in SeqsUpTo(ItemPool, MaxSteps) }

\* what urlopen gives: an HTTP error status, a transport failure or a body
BackendResponses ==
    { [kind |-> "HTTPError", payload |-> [shape |-> "bad_json", items |-> <<>>]],
      [kind |-> "URLError", payload |-> [shape |-> "bad_json", items |-> <<>>]] }
    \cup { [kind |-> "ok", payload |-> p] : p \in Payloads }

\* what the verifier may write on its output channel
OracleStdouts ==
    { <<>>,
      <<" ", NL>>,
      <<"{", "\"valid\"", ":", "true", "}">>,
      <<"{", "\"valid\"", ":", " ", "true", "}", NL>>,
      <<"{", "\"valid\"", ":", "false", "}">>,
      <<"{", "\"valid\"", ":", "false", ",", "\"error\"", ":", "\"s\"", "}">>,
      <<"{", "\"valid\"", ":", "true", ",", "\"error\"", ":", "\"s\"", "}">>,
      <<"{", "\"valid\"", ":", "false", ",", "\"error\"", ":", "\"\"", "}">>,
      <<"{", "}">>,
      <<"{", "\"error\"", ":", "\"s\"", "}">>,
      <<"{", "\"valid\"", ":", "\"s\"", "}">>,
      <<"{", "\"valid\"", ":", "1", "}">>,
      <<"{", "\"valid\"", ":", "null", "}">>,
      <<"{", "\"valid\"", ":", "false", ",", "\"valid\"", ":", "true", "}">>,
      <<"[", "]">>,
      <<"true">>,
      <<"x">>,
      <<"{", "\"valid\"", ":">>,
      <<"{", "\"valid\"", ":", "true", "}", "x">> }

\* what the verifier may write on its diagnostic stream
OracleStderrs == {<<>>, <<"E">>, <<" ", "E", NL>>}

\* the completed processes subprocess.run may return
OracleRuns ==
    { [ran |-> TRUE, returncode |-> 0, stdout |-> o, stderr |-> <<>>] : o \in OracleStdouts }
    \cup { [ran |-> TRUE, returncode |-> 0,
            stdout |-> <<"{", "\"valid\"", ":", "true", "}">>, stderr |-> <<"E">>] }
    \cup { [ran |-> TRUE, returncode |-> 1, stdout |-> o, stderr |-> e] :
             o \in { <<>>, <<"x">>, <<"{", "\"valid\"", ":", "true", "}">> },
             e \in OracleStderrs }

\* OPENAI_TIMEOUT: unset, or a number of seconds
TimeoutEnvs == { [set |-> FALSE, seconds |-> 0], [set |-> TRUE, seconds |-> 30] }

NoPayload == [shape |-> "none", items |-> <<>>]

----------------------------------------------------------------------------
(* Module constants *)

DefaultRequestTimeout == 180
UrlopenTimeout == 120
NoTimeout == 0

\* REQUEST_TIMEOUT = float(os.environ.get("OPENAI_TIMEOUT", "180"))
REQUEST_TIMEOUT(env) == IF env.set THEN env.seconds ELSE DefaultRequestTimeout

----------------------------------------------------------------------------
(* The run of main *)

Init ==
    /\ premises \in SeqsUpTo(PremisePool, MaxPremises)
    /\ conclusion \in ConclusionPool
    /\ dry_run \in BOOLEAN
    /\ api_key \in {<<>>, <<"sk">>}
    /\ openai_timeout \in TimeoutEnvs
    /\ proof_payload = NoPayload
    /\ llm_timeout = NoTimeout
    /\ pc = "Idle"
    /\ steps = <<>>
    /\ request = <<>>
    /\ proc = NoProc
    /\ checker_result = NoResult
    /\ table_printed = FALSE
    /\ verdict = NoVerdict
    /\ error_line = <<>>
    /\ exc = NoExc
    /\ exit_code = -1
    /\ llm_requests = 0
    /\ oracle_runs = 0

\* a faulty driver: a failed call is made again
PropagateRetry(e, next) ==
    IF e.type = "None" THEN next
    ELSE IF next = "Encoding" THEN "Idle"
    ELSE IF next = "Reporting" THEN "Encoding"
    ELSE "Failure"

\* a faulty driver: an exception is recorded and main carries on
PropagateSwallow(e, next) == next

\* An exception raised below main is caught nowhere: it ends the run, and the
\* interpreter exits with status 1.  Otherwise main goes on to its next call.
Propagate(e, next) == IF e.type # "None" THEN "Failure" ELSE next

ExitOf(state, code) == IF state = "Failure" THEN 1 ELSE code

\* a faulty dispatch: the backend is called in a dry run too
UsesBackendAlways(dry) == TRUE

\* if args.dry_run: ... else: call_llm(...)
UsesBackend(dry) == ~dry

\* a faulty check: the credential is never found missing
MissingCredentialNever(key) == FALSE

\* if not api_key: None and the empty text alike
MissingCredential(key) == key = <<>>

\* call_llm to the sending of the request, lines 86-113
CallLLMSend ==
    /\ pc = "Idle"
    /\ UsesBackend(dry_run)
    /\ LET e == IF MissingCredential(api_key)
                THEN Raise("RuntimeError", "call_llm",
                           "OPENAI_API_KEY environment variable is required.", <<>>)
                ELSE NoExc
       IN /\ exc' = e
          /\ pc' = Propagate(e, "Generating")
          /\ exit_code' = ExitOf(pc', -1)
          /\ llm_requests' = IF e.type = "None" THEN llm_requests + 1 ELSE llm_requests
          /\ llm_timeout' = IF e.type = "None" THEN UrlopenTimeout ELSE llm_timeout
    /\ UNCHANGED <<premises, conclusion, dry_run, api_key, openai_timeout,
                   proof_payload, steps, request, proc,
                   checker_result, table_printed, verdict, error_line, oracle_runs>>

\* call_llm from the backend's answer on, lines 113-124
GenerationOutcome(resp) ==
    IF resp.kind = "HTTPError"
    THEN [exc |-> Raise("RuntimeError", "call_llm", "OpenAI request failed: status", <<>>),
          steps |-> <<>>]
    ELSE IF resp.kind = "URLError"
    THEN [exc |-> Raise("RuntimeError", "call_llm", "OpenAI request failed: reason", <<>>),
          steps |-> <<>>]
    ELSE BuildSteps(resp.payload, "call_llm")

CallLLMReceive ==
    /\ pc = "Generating"
    /\ \E resp \in BackendResponses :
         LET out == GenerationOutcome(resp)
         IN /\ exc' = out.exc
            /\ proof_payload' = IF resp.kind = "ok" THEN resp.payload ELSE proof_payload
            /\ steps' = out.steps
            /\ pc' = Propagate(out.exc, "Encoding")
            /\ exit_code' = ExitOf(pc', -1)
    /\ UNCHANGED <<premises, conclusion, dry_run, api_key, openai_timeout, llm_timeout,
                   request, proc, checker_result,
                   table_printed, verdict, error_line, llm_requests, oracle_runs>>

\* load_steps_from_stdin, lines 144-147
LoadStepsFromStdin ==
    /\ pc = "Idle"
    /\ ~UsesBackend(dry_run)
    /\ \E data \in Payloads :
         LET out == BuildSteps(data, "load_steps_from_stdin")
         IN /\ exc' = out.exc
            /\ proof_payload' = data
            /\ steps' = out.steps
            /\ pc' = Propagate(out.exc, "Encoding")
            /\ exit_code' = ExitOf(pc', -1)
    /\ UNCHANGED <<premises, conclusion, dry_run, api_key, openai_timeout,
                   llm_timeout, request, proc, checker_result,
                   table_printed, verdict, error_line, llm_requests, oracle_runs>>

\* call_proof_checker to the start of the verifier, lines 151-167; subprocess.run
\* raises FileNotFoundError when the java executable cannot be started
CallProofCheckerStart ==
    /\ pc = "Encoding"
    /\ \E started \in BOOLEAN :
         LET e == IF started THEN NoExc
                  ELSE Raise("FileNotFoundError", "call_proof_checker", "java", <<>>)
         IN /\ exc' = e
            /\ pc' = Propagate(e, "Verifying")
            /\ exit_code' = ExitOf(pc', -1)
            /\ request' = IF started THEN EncodeRequest(premises, conclusion, steps)
                          ELSE request
            /\ oracle_runs' = IF started THEN oracle_runs + 1 ELSE oracle_runs
    /\ UNCHANGED <<premises, conclusion, dry_run, api_key, openai_timeout,
                   proof_payload, llm_timeout,
                   steps, proc, checker_result,
                   table_printed, verdict, error_line, llm_requests>>

\* call_proof_checker from the verifier's exit on, lines 161-180
CallProofCheckerWait ==
    /\ pc = "Verifying"
    /\ \E run \in OracleRuns :
         LET out == CheckerOutcome(run)
         IN /\ proc' = run
            /\ exc' = out.exc
            /\ checker_result' = out.result
            /\ pc' = Propagate(out.exc, "Reporting")
            /\ exit_code' = ExitOf(pc', -1)
    /\ UNCHANGED <<premises, conclusion, dry_run, api_key, openai_timeout,
                   proof_payload, llm_timeout,
                   steps, request, table_printed,
                   verdict, error_line, llm_requests, oracle_runs>>

\* main, lines 193-201, and the exit of line 224
Report ==
    /\ pc = "Reporting"
    /\ LET rep == ReportOutcome(checker_result, steps)
       IN /\ table_printed' = TRUE
          /\ verdict' = rep.verdict
          /\ error_line' = rep.error_line
          /\ exc' = rep.exc
          /\ exit_code' = rep.exit_code
          /\ pc' = IF rep.exit_code = 0 THEN "Success" ELSE "Failure"
    /\ UNCHANGED <<premises, conclusion, dry_run, api_key, openai_timeout,
                   proof_payload, llm_timeout,
                   steps, request, proc,
                   checker_result, llm_requests, oracle_runs>>

Next ==
    \/ CallLLMSend
    \/ CallLLMReceive
    \/ LoadStepsFromStdin
    \/ CallProofCheckerStart
    \/ CallProofCheckerWait
    \/ Report

Spec == Init /\ [][Next]_vars

----------------------------------------------------------------------------
(* Vocabulary of the properties *)

Terminal == {"Success", "Failure"}

Terminated(line) == line \o <<NL>>

RECURSIVE ConcatAll(_)
ConcatAll(ss) == IF ss = <<>> THEN <<>> ELSE Head(ss) \o ConcatAll(Tail(ss))

\* the wire format of the request, line by line
WireFormat(prem, concl, stps) ==
    Terminated(<<"CONCLUSION", "|">> \o concl)
    \o ConcatAll([i \in 1..Len(prem) |-> Terminated(<<"PREMISE", "|">> \o prem[i])])
    \o ConcatAll([i \in 1..Len(stps) |->
                    Terminated(<<"STEP", "|">> \o stps[i].formula
                               \o <<"|", "|">> \o stps[i].rule)])

\* detail is stream without some leading and trailing whitespace
Carries(detail, stream) ==
    \E i, j \in 0..Len(stream) :
        /\ i + j <= Len(stream)
        /\ detail = SubSeq(stream, i + 1, Len(stream) - j)
        /\ \A k \in 1..i : stream[k] \in {" ", "\n"}
        /\ \A k \in (Len(stream) - j + 1)..Len(stream) : stream[k] \in {" ", "\n"}

AllSpace(text) == \A k \in 1..Len(text) : text[k] \in {" ", "\n"}

HasSeparator(text) == \E k \in 1..Len(text) : text[k] \in {"|", "\n"}

VerifierExecutionError(e) ==
    e.type = "RuntimeError" /\ e.text = "Proof verifier exited with code"

EmptyOracleOutput(e) ==
    e.type = "RuntimeError" /\ e.text = "Proof verifier produced no output."

OracleProtocolError(e) ==
    e.type = "RuntimeError" /\ e.text = "Failed to parse verifier output"

OracleExitedZero == proc.ran /\ proc.returncode = 0

----------------------------------------------------------------------------
(* C1: the request sent to the verifier is the CONCLUSION line, then one   *)
(* PREMISE line per premise in input order, then one STEP line per step in *)
(* input order, every line ended by "\n", nothing reordered, dropped,      *)
(* added or deduplicated; also with no premises and with no steps.         *)
C1_RequestIsWireFormat ==
    oracle_runs > 0 => request = WireFormat(premises, conclusion, steps)

C1_Witness ==
    /\ oracle_runs > 0
    /\ Len(premises) = 2 /\ premises[1] # premises[2]
    /\ Len(steps) = 2 /\ steps[1] # steps[2]

(* C2: the exit code is 0 exactly when the verifier ran, exited with 0 and *)
(* its decoded reply carries valid equal to the boolean true; it is 1 in   *)
(* every other run.                                                        *)
C2_ExitCodeIffValidTrue ==
    pc \in Terminal =>
        /\ exit_code \in {0, 1}
        /\ exit_code = 0 <=>
              /\ OracleExitedZero
              /\ checker_result.kind = "dict"
              /\ "\"valid\"" \in DOMAIN checker_result.d
              /\ checker_result.d["\"valid\""] = "true"

(* C3: when the verifier exits with a non-zero status the run ends with    *)
(* the verifier-execution error carrying the diagnostic stream, whatever   *)
(* the output channel holds; the output is not decoded and nothing is      *)
(* reported.                                                               *)
C3_ExitStatusTakesPrecedence ==
    (proc.ran /\ proc.returncode # 0) =>
        /\ pc = "Failure"
        /\ VerifierExecutionError(exc)
        /\ exc.site = "call_proof_checker"
        /\ Carries(exc.detail, proc.stderr)
        /\ checker_result.kind = "none"
        /\ ~verdict.printed
        /\ ~table_printed
        /\ exit_code = 1

C3_Witness ==
    /\ proc.ran /\ proc.returncode # 0
    /\ proc.stdout = <<"{", "\"valid\"", ":", "true", "}">>
    /\ proc.stderr = <<" ", "E", "\n">>
    /\ pc = "Failure"

(* C4: a conclusion, premise, step formula or justification that holds a   *)
(* separator of the wire format ("|" or a line terminator) is never sent   *)
(* to the verifier: the verifier is not started in such a run.             *)
C4_NoSeparatorReachesOracle ==
    oracle_runs > 0 =>
        /\ ~HasSeparator(conclusion)
        /\ \A i \in 1..Len(premises) : ~HasSeparator(premises[i])
        /\ \A i \in 1..Len(steps) :
              ~HasSeparator(steps[i].formula) /\ ~HasSeparator(steps[i].rule)

(* C5: when the verifier exits with 0 and its output is empty or only      *)
(* whitespace, the run ends with the empty-output error; no outcome with   *)
(* valid false is made of it and no verdict is reported.                   *)
C5_EmptyOutputIsAnError ==
    (OracleExitedZero /\ AllSpace(proc.stdout)) =>
        /\ pc = "Failure"
        /\ EmptyOracleOutput(exc)
        /\ checker_result.kind = "none"
        /\ ~verdict.printed
        /\ ~table_printed
        /\ error_line = <<>>
        /\ exit_code = 1

C5_Witness ==
    /\ OracleExitedZero
    /\ proc.stdout = <<" ", "\n">>
    /\ pc = "Failure"

(* C6: when the verifier exits with 0 and its non-empty output is not a    *)
(* verdict payload (a JSON object), the run ends with the protocol error   *)
(* carrying the raw output, and no verdict is reported.                    *)
C6_MalformedReplyIsProtocolError ==
    (/\ pc \in Terminal
     /\ OracleExitedZero
     /\ ~AllSpace(proc.stdout)
     /\ JsonLoads(Strip(proc.stdout)).kind # "dict") =>
        /\ OracleProtocolError(exc)
        /\ Carries(exc.detail, proc.stdout)
        /\ ~verdict.printed

----------------------------------------------------------------------------
\* the reply of a finished run whose verifier exited with 0 and answered with an object
WellFormedReply ==
    pc \in Terminal /\ OracleExitedZero /\ checker_result.kind = "dict"

ReplyValid ==
    IF "\"valid\"" \in DOMAIN checker_result.d
    THEN checker_result.d["\"valid\""] ELSE "false"

ErrorLineOf(v) == <<"Proof checker error: ", v>>

ValidOnly == <<"{", "\"valid\"", ":", "true", "}">>
InvalidWithError ==
    <<"{", "\"valid\"", ":", "false", ",", "\"error\"", ":", "\"s\"", "}">>

(* C7, as stated: for a well-formed reply received with exit status 0 the  *)
(* reported valid is the reply's valid field, false when it is absent, and *)
(* the reported error is the reply's error verbatim whenever the reply has *)
(* one, none otherwise.                                                    *)
C7_ErrorReportedWheneverPresent ==
    WellFormedReply =>
        /\ verdict.printed
        /\ verdict.valid = ReplyValid
        /\ error_line = IF "\"error\"" \in DOMAIN checker_result.d
                        THEN ErrorLineOf(checker_result.d["\"error\""])
                        ELSE <<>>

(* C7, amended: for a well-formed reply received with exit status 0 the    *)
(* reported valid is the reply's valid field, false when it is absent; the *)
(* reply's error is reported verbatim when the reported valid is false (or *)
(* another empty value) and the error is present and not empty, and no     *)
(* error is reported otherwise.  {"valid": true} gives valid true and no   *)
(* error; {"valid": false, "error": s} gives valid false and error s.      *)
C7_VerdictFollowsReply ==
    WellFormedReply =>
        /\ verdict.printed
        /\ verdict.valid = ReplyValid
        /\ error_line =
              IF /\ ReplyValid \in {"false", "null", "0", "\"\""}
                 /\ "\"error\"" \in DOMAIN checker_result.d
                 /\ checker_result.d["\"error\""] \notin {"false", "null", "0", "\"\""}
              THEN ErrorLineOf(checker_result.d["\"error\""])
              ELSE <<>>
        /\ proc.stdout = ValidOnly => verdict.valid = "true" /\ error_line = <<>>
        /\ proc.stdout = InvalidWithError =>
              verdict.valid = "false" /\ error_line = ErrorLineOf("\"s\"")

C7_Witness ==
    /\ WellFormedReply
    /\ proc.stdout = InvalidWithError
    /\ error_line = ErrorLineOf("\"s\"")
    /\ verdict.printed

(* C8: with premises given, every request sent to the verifier after       *)
(* generation starts with one step per premise, in order, each with the    *)
(* premise as formula and the justification "Premise".                     *)
C8_StepsBeginWithPremises ==
    (oracle_runs > 0 /\ ~dry_run /\ premises # <<>>) =>
        /\ Len(steps) >= Len(premises)
        /\ \A i \in 1..Len(premises) :
              i <= Len(steps) =>
                  steps[i] = [formula |-> premises[i], rule |-> <<"Premise">>]

----------------------------------------------------------------------------
Rank(state) ==
    CASE state = "Idle"       -> 0
      [] state = "Generating" -> 1
      [] state = "Encoding"   -> 2
      [] state = "Verifying"  -> 3
      [] state = "Reporting"  -> 4
      [] OTHER                -> 5

GenerationFailed == exc.site \in {"call_llm", "load_steps_from_stdin"}

(* C9: every step of the driver moves forward through Idle, Generating,    *)
(* Encoding, Verifying, Reporting and a terminal state, so no state is     *)
(* entered twice; the verifier is started only from Encoding, which is     *)
(* entered only with the steps constructed and no error; an error of the   *)
(* generation adapter or of reading the supplied payload is terminal: the  *)
(* verifier is never started and nothing is reported in that run.          *)
C9_ForwardOnly ==
    /\ [][ /\ Rank(pc') > Rank(pc)
           /\ oracle_runs' # oracle_runs =>
                 pc = "Encoding" /\ pc' = "Verifying" /\ exc.type = "None"
           /\ pc' = "Encoding" => pc \in {"Idle", "Generating"} /\ exc'.type = "None"
           /\ proc' # proc => pc = "Verifying"
         ]_vars
    /\ [](GenerationFailed =>
            /\ pc = "Failure"
            /\ oracle_runs = 0
            /\ ~proc.ran
            /\ ~verdict.printed
            /\ ~table_printed)

C9_Witness ==
    /\ GenerationFailed
    /\ llm_requests = 1
    /\ pc = "Failure"
    /\ exit_code = 1

(* C10: the verdict is reported if and only if the verifier exited with 0  *)
(* and its reply was decoded; a run that reports the steps reports the     *)
(* verdict; a decoded reply with valid false is reported and ends in       *)
(* Failure with no error raised; the three verifier errors report nothing. *)
C10_ReportIffDecoded ==
    pc \in Terminal =>
        /\ verdict.printed <=> (OracleExitedZero /\ checker_result.kind # "none")
        /\ table_printed => verdict.printed
        /\ (OracleExitedZero /\ checker_result.kind = "dict" /\ ReplyValid = "false") =>
              pc = "Failure" /\ exc.type = "None" /\ verdict.printed
        /\ (VerifierExecutionError(exc) \/ EmptyOracleOutput(exc)
              \/ OracleProtocolError(exc)) => ~verdict.printed /\ ~table_printed

----------------------------------------------------------------------------
\* the steps that the items of the payload read describe
PayloadSteps ==
    [i \in 1..Len(proof_payload.items) |->
        [formula |-> proof_payload.items[i]["formula"],
         rule |-> IF "rule" \in DOMAIN proof_payload.items[i]
                  THEN proof_payload.items[i]["rule"] ELSE <<>>]]

MissingCredentialError(e) ==
    /\ e.type = "RuntimeError"
    /\ e.site = "call_llm"
    /\ e.text = "OPENAI_API_KEY environment variable is required."

(* C11: in a dry run the Generating state is skipped: no request is sent   *)
(* to the generation backend and the credential is not required; the       *)
(* payload is read from standard input, and its steps, in its order, are   *)
(* what is encoded and sent to the verifier.                               *)
C11_DryRunSkipsGeneration ==
    dry_run =>
        /\ pc # "Generating"
        /\ llm_requests = 0
        /\ llm_timeout = NoTimeout
        /\ exc.site # "call_llm"
        /\ ~MissingCredentialError(exc)
        /\ pc # "Idle" => proof_payload.shape # "none"
        /\ oracle_runs > 0 =>
              /\ proof_payload.shape = "ok"
              /\ steps = PayloadSteps
              /\ request = WireFormat(premises, conclusion, PayloadSteps)

C11_Witness ==
    /\ dry_run
    /\ api_key = <<>>
    /\ oracle_runs = 1
    /\ Len(steps) = 2 /\ steps[1] # steps[2]

(* C12: constructing the steps from a proof_steps payload fails with the   *)
(* malformed-payload error (KeyError 'formula') whenever an item has no    *)
(* "formula"; an item without "rule" gives a step with the empty           *)
(* justification; otherwise the steps are the items, same number, same     *)
(* order.                                                                  *)
C12_StepsFromPayload ==
    proof_payload.shape = "ok" =>
        IF \E i \in 1..Len(proof_payload.items) :
               "formula" \notin DOMAIN proof_payload.items[i]
        THEN /\ pc = "Failure"
             /\ exc.type = "KeyError" /\ exc.text = "formula"
             /\ exc.site \in {"call_llm", "load_steps_from_stdin"}
             /\ steps = <<>>
             /\ oracle_runs = 0
        ELSE /\ ~GenerationFailed
             /\ Len(steps) = Len(proof_payload.items)
             /\ steps = PayloadSteps

C12_Witness ==
    /\ proof_payload.shape = "ok"
    /\ Len(proof_payload.items) = 2
    /\ "rule" \notin DOMAIN proof_payload.items[2]
    /\ Len(steps) = 2
    /\ steps[2].rule = <<>>
    /\ steps[1].rule # <<>>

(* C13: outside a dry run, with the credential absent or empty, the        *)
(* generation adapter fails with the configuration error before any        *)
(* request is sent to the backend, and the verifier is never started.      *)
C13_MissingCredentialIsFatal ==
    (~dry_run /\ api_key = <<>> /\ pc # "Idle") =>
        /\ pc = "Failure"
        /\ MissingCredentialError(exc)
        /\ llm_requests = 0
        /\ llm_timeout = NoTimeout
        /\ oracle_runs = 0
        /\ ~proc.ran
        /\ exit_code = 1

C13_Witness ==
    /\ ~dry_run
    /\ api_key = <<>>
    /\ pc = "Failure"
    /\ MissingCredentialError(exc)

(* C14: every derivation submitted to the verifier has a non-empty         *)
(* conclusion, non-empty premises, non-empty step formulas and a non-empty *)
(* justification on every step.                                            *)
C14_DerivationInvariants ==
    oracle_runs > 0 =>
        /\ conclusion # <<>>
        /\ \A i \in 1..Len(premises) : premises[i] # <<>>
        /\ \A i \in 1..Len(steps) : steps[i].formula # <<>> /\ steps[i].rule # <<>>

(* C15: no retries: in every run at most one request is sent to the        *)
(* generation backend and at most one verifier process is started, also    *)
(* after a transport error, a non-zero exit, an empty or an unparseable    *)
(* output.                                                                 *)
C15_NoRetries ==
    /\ llm_requests <= 1
    /\ oracle_runs <= 1

C15_Witness ==
    /\ exc.text = "OpenAI request failed: reason"
    /\ llm_requests = 1
    /\ oracle_runs = 0
    /\ pc = "Failure"

(* C16: the wait bound of the generation backend call is the configured    *)
(* request timeout: the value of OPENAI_TIMEOUT when set, else 180 s.      *)
C16_TimeoutIsConfigured ==
    llm_requests > 0 =>
        llm_timeout = IF openai_timeout.set THEN openai_timeout.seconds ELSE 180

(* C17: the steps are not modified once constructed, and in a run that     *)
(* reports a verdict the steps listed in the report are the steps encoded  *)
(* in the one request sent to the verifier: same formulas, justifications, *)
(* order and length.                                                       *)
C17_ReportedStepsAreSentSteps ==
    /\ [](verdict.printed =>
            /\ oracle_runs = 1
            /\ verdict.steps = steps
            /\ request = WireFormat(premises, conclusion, verdict.steps))
    /\ [][ /\ pc \in {"Encoding", "Verifying", "Reporting"} => steps' = steps
           /\ request # <<>> => request' = request ]_vars

C17_Witness ==
    /\ verdict.printed
    /\ Len(verdict.steps) = 2
    /\ verdict.steps[1] # verdict.steps[2]

----------------------------------------------------------------------------
(* Reading a request back, line by line *)

FirstIndex(text, tok) ==
    IF \E i \in 1..Len(text) : text[i] = tok
    THEN CHOOSE i \in 1..Len(text) : text[i] = tok /\ \A j \in 1..(i - 1) : text[j] # tok
    ELSE 0

RECURSIVE SplitLines(_)
SplitLines(text) ==
    IF text = <<>> THEN <<>>
    ELSE LET k == FirstIndex(text, "\n")
         IN IF k = 0 THEN <<text>>
            ELSE <<SubSeq(text, 1, k - 1)>> \o SplitLines(SubSeq(text, k + 1, Len(text)))

\* the keyword of a line and what follows its first "|"
TagOf(line) == IF Len(line) >= 2 /\ line[2] = "|" THEN line[1] ELSE "?"
BodyOf(line) == SubSeq(line, 3, Len(line))

\* the step of a STEP line: the formula ends at the first "||"
StepOfLine(line) ==
    LET body == BodyOf(line)
        k == FirstIndex(body, "|")
    IN IF k = 0 \/ k = Len(body) \/ body[k + 1] # "|"
       THEN [formula |-> <<"?">>, rule |-> <<"?">>]
       ELSE [formula |-> SubSeq(body, 1, k - 1), rule |-> SubSeq(body, k + 2, Len(body))]

Decode(text) ==
    LET ls == SplitLines(text)
        np == Cardinality({i \in 1..Len(ls) : TagOf(ls[i]) = "PREMISE"})
    IN [conclusion |-> BodyOf(ls[1]),
        premises |-> [i \in 1..np |-> BodyOf(ls[i + 1])],
        steps |-> [i \in 1..(Len(ls) - 1 - np) |-> StepOfLine(ls[1 + np + i])]]

SeparatorFree(prem, concl, stps) ==
    /\ ~HasSeparator(concl)
    /\ \A i \in 1..Len(prem) : ~HasSeparator(prem[i])
    /\ \A i \in 1..Len(stps) :
          ~HasSeparator(stps[i].formula) /\ ~HasSeparator(stps[i].rule)

\* the steps without separator that a payload of the model can give
PlainSteps ==
    { [formula |-> <<"P">>, rule |-> <<"Premise">>],
      [formula |-> <<"Q">>, rule |-> <<"Premise">>],
      [formula |-> <<"Q">>, rule |-> <<"->e", " ", "1,2">>],
      [formula |-> <<"Q">>, rule |-> <<>>] }

(* C18: when no formula and no justification holds "|" or a line           *)
(* terminator, the request has exactly 1 + len(premises) + len(steps)      *)
(* lines, the conclusion, the premises and the steps are recovered from it *)
(* line by line, and no other such input gives the same request.           *)
C18_EncodingIsInjective ==
    (pc = "Verifying" /\ SeparatorFree(premises, conclusion, steps)) =>
        LET ls == SplitLines(request)
        IN /\ Len(ls) = 1 + Len(premises) + Len(steps)
           /\ TagOf(ls[1]) = "CONCLUSION"
           /\ \A i \in 1..Len(premises) : TagOf(ls[1 + i]) = "PREMISE"
           /\ \A i \in 1..Len(steps) : TagOf(ls[1 + Len(premises) + i]) = "STEP"
           /\ Decode(request) =
                 [conclusion |-> conclusion, premises |-> premises, steps |-> steps]
           /\ \A p2 \in SeqsUpTo(PremisePool, MaxPremises), c2 \in ConclusionPool :
                 (SeparatorFree(p2, c2, steps) /\ <<p2, c2>> # <<premises, conclusion>>)
                    => EncodeRequest(p2, c2, steps) # request
           /\ \A s2 \in SeqsUpTo(PlainSteps, MaxSteps) :
                 s2 # steps => EncodeRequest(premises, conclusion, s2) # request

C18_Witness ==
    /\ pc = "Verifying"
    /\ SeparatorFree(premises, conclusion, steps)
    /\ Len(premises) = 2 /\ Len(steps) = 2
    /\ steps[2].rule = <<>>

====
